---- MODULE Spec2Model ----
(***************************************************************************)
(* A model of the Rubik's cube simulator: the CubeModel class of           *)
(* rubiks_cube/models/cube_model.py, the animation driver and the animated *)
(* drawing of rubiks_cube/views/cube_renderer.py, the buttons, the solve   *)
(* handler and the net of rubiks_cube/views/fallback_renderer.py, the      *)
(* buttons, the animated solve and the animation loop of                   *)
(* rubiks_cube/views/gui.py, and the reset handlers of the three front     *)
(* ends.                                                                   *)
(*                                                                         *)
(* Python values are modelled as follows.  A position is the tuple         *)
(* <<x, y, z>>; Python indexes it from 0, TLA+ from 1, so pos[axis] of the *)
(* source is pos[axis + 1] here.  A dict is a function whose domain is the *)
(* set of keys the code inserted.  A Cubie                                 *)
(* object is a record of its fields x, y, z and colors, plus the field oid *)
(* that stands for the identity of the Python object (two records with     *)
(* the same oid are the same object).  The return value of a call is       *)
(* "True" or "False", or "KeyError" when the call raised.                  *)
(***************************************************************************)
EXTENDS Integers, Sequences, FiniteSets, TLC

VARIABLES
    cube_model,         \* the CubeModel object: cubies, animating, history
    current_animation,  \* CubeRenderer.current_animation: NoAnimation or <<face, direction>>
    last,               \* the last method called from outside, and what it returned
    snapshot,           \* the dict a caller got from get_state(), or NoSnapshot
    timers              \* the _animate_solution calls scheduled with root.after

vars == <<cube_model, current_animation, last, snapshot, timers>>

----------------------------------------------------------------------------
(* Bounds of the exploration *)

\* rotate_face and randomize are called while the history is shorter than this
MaxMoves == 2
\* the largest num_moves passed to randomize
MaxRandom == 2
\* the longest run of one same move from the solved cube (SpecTurns)
MaxTurns == 4
\* the caller that holds a snapshot turns faces while the history is shorter
MaxSnapshotMoves == 1

\* the buttons of the 3-D GUI are pressed while the history is shorter
MaxGuiHistory == 4
\* Solve is pressed while fewer _animate_solution calls are scheduled
MaxTimers == 1

----------------------------------------------------------------------------
(* Constants of cube_model.py *)

WHITE == 0
YELLOW == 1
RED == 2
ORANGE == 3
BLUE == 4
GREEN == 5

\* Python's None where the code expects a colour: no number is a colour
\* but 0 .. 5, and TLC compares a number only with numbers
None == -1

\* Python's None where the code expects a (face, direction) pair
NoAnimation == <<>>

\* no dict was taken from get_state() yet
NoSnapshot == <<>>

Colors == {WHITE, YELLOW, RED, ORANGE, BLUE, GREEN}

FACE_AXES ==
    (0 :> <<2, 1>>) @@ (1 :> <<2, -1>>) @@ (2 :> <<0, 1>>) @@
    (3 :> <<0, -1>>) @@ (4 :> <<1, 1>>) @@ (5 :> <<1, -1>>)

FACE_DIRECTIONS ==
    [top |-> 0, bottom |-> 1, right |-> 2, left |-> 3, front |-> 4, back |-> 5]

\* faces = list(range(6)) and directions = [1, -1] of randomize
faces == 0 .. 5
directions == {1, -1}

\* face indices that are no key of FACE_AXES
InvalidFaces == {-1, 6}

\* the keys of Cubie.colors, in the order the dict literal lists them
FaceKeys == <<"x+", "x-", "y+", "y-", "z+", "z-">>

\* face_to_axis of _rotate_cubie_colors
face_to_axis ==
    [k \in {"x+", "x-", "y+", "y-", "z+", "z-"} |->
        CASE k = "x+" -> <<0, 1>>
          [] k = "x-" -> <<0, -1>>
          [] k = "y+" -> <<1, 1>>
          [] k = "y-" -> <<1, -1>>
          [] k = "z+" -> <<2, 1>>
          [] k = "z-" -> <<2, -1>>]

\* axis_to_face of _rotate_cubie_colors: the reverse of face_to_axis
axis_to_face(as) == CHOOSE k \in DOMAIN face_to_axis : face_to_axis[k] = as

\* f"{['x', 'y', 'z'][axis]}{'+' if sign > 0 else '-'}"
face_key(axis, sign) ==
    IF sign > 0
    THEN (CASE axis = 0 -> "x+" [] axis = 1 -> "y+" [] axis = 2 -> "z+")
    ELSE (CASE axis = 0 -> "x-" [] axis = 1 -> "y-" [] axis = 2 -> "z-")

\* [i for i in range(3) if i != axis], as the pair <<a1, a2>>
other_axes(axis) ==
    CASE axis = 0 -> <<1, 2>>
      [] axis = 1 -> <<0, 2>>
      [] axis = 2 -> <<0, 1>>

----------------------------------------------------------------------------
(* Cubie and CubeModel construction *)

\* Cubie.__init__
Cubie(x, y, z) ==
    [x |-> x, y |-> y, z |-> z,
     colors |->
        [k \in DOMAIN face_to_axis |->
            CASE k = "x+" -> (IF x = 1 THEN RED ELSE None)
              [] k = "x-" -> (IF x = -1 THEN ORANGE ELSE None)
              [] k = "y+" -> (IF y = 1 THEN BLUE ELSE None)
              [] k = "y-" -> (IF y = -1 THEN GREEN ELSE None)
              [] k = "z+" -> (IF z = 1 THEN WHITE ELSE None)
              [] k = "z-" -> (IF z = -1 THEN YELLOW ELSE None)]]

\* a Cubie object created by the call number n >= 1 of rotate_face on this
\* model (n = 0: by the constructor of the model); one call creates at most
\* one Cubie per position, so <<n, x, y, z>> names the object
NewCubie(n, x, y, z) == [oid |-> <<n, x, y, z>>] @@ Cubie(x, y, z)

\* the keys CubeModel.__init__ inserts
InitialPositions ==
    {p \in (-1 .. 1) \X (-1 .. 1) \X (-1 .. 1) : p # <<0, 0, 0>>}

\* CubeModel.__init__
CubeModel ==
    [cubies |-> [p \in InitialPositions |-> NewCubie(0, p[1], p[2], p[3])],
     animating |-> FALSE,
     animation_progress |-> 0,
     history |-> <<>>]

----------------------------------------------------------------------------
(* CubeModel._rotate_cubie_colors *)

\* new_face_key with the sign of the first affected axis not flipped on a
\* counter-clockwise turn (line 253 as new_sign = face_sign)
new_face_key_sign(k, rotation_axis, direction) ==
    LET face_axis == face_to_axis[k][1]
        face_sign == face_to_axis[k][2]
        a1 == other_axes(rotation_axis)[1]
        a2 == other_axes(rotation_axis)[2]
    IN  IF face_axis = rotation_axis THEN k
        ELSE IF face_axis = a1
             THEN axis_to_face(<<a2, face_sign>>)
             ELSE (IF direction = 1
                   THEN axis_to_face(<<a1, -face_sign>>)
                   ELSE axis_to_face(<<a1, face_sign>>))

\* the new face key of one face key: faces on the rotation axis stay, the
\* four others move to the other affected axis
new_face_key(k, rotation_axis, direction) ==
    LET face_axis == face_to_axis[k][1]
        face_sign == face_to_axis[k][2]
        a1 == other_axes(rotation_axis)[1]
        a2 == other_axes(rotation_axis)[2]
    IN  IF face_axis = rotation_axis THEN k
        ELSE IF face_axis = a1
             THEN (IF direction = 1
                   THEN axis_to_face(<<a2, face_sign>>)
                   ELSE axis_to_face(<<a2, -face_sign>>))
             ELSE (IF direction = 1
                   THEN axis_to_face(<<a1, -face_sign>>)
                   ELSE axis_to_face(<<a1, face_sign>>))

\* face_mapping that maps every face key to itself: the labels are carried
\* to the new cubie without being turned
face_mapping_identity(rotation_axis, direction) ==
    [k \in DOMAIN face_to_axis |-> k]

\* face_mapping, as the dict old face key -> new face key
face_mapping(rotation_axis, direction) ==
    [k \in DOMAIN face_to_axis |-> new_face_key(k, rotation_axis, direction)]

\* face_mapping_keys without the loop of lines 231-233: the faces on the
\* rotation axis are not in face_mapping
face_mapping_keys_affected(rotation_axis) ==
    LET OffAxis(k) == face_to_axis[k][1] # rotation_axis
    IN  SelectSeq(FaceKeys, OffAxis)

\* the order in which face_mapping.items() yields the keys: the two faces on
\* the rotation axis were inserted first, then the four affected faces
face_mapping_keys(rotation_axis) ==
    LET OnAxis(k) == face_to_axis[k][1] = rotation_axis
        OffAxis(k) == face_to_axis[k][1] # rotation_axis
    IN  SelectSeq(FaceKeys, OnAxis) \o SelectSeq(FaceKeys, OffAxis)

\* the loop of lines 267-269 that writes a label of the new cubie only if
\* it holds no colour yet (new_cubie.colors[new_face] is None in line 268)
RECURSIVE apply_face_mapping_keep_default(_, _, _, _, _)
apply_face_mapping_keep_default(new_colors, old_colors, mapping, keys, i) ==
    IF i > Len(keys) THEN new_colors
    ELSE LET old_face == keys[i]
             new_face == mapping[old_face]
         IN  apply_face_mapping_keep_default(
                 IF new_colors[new_face] = None
                 THEN [new_colors EXCEPT ![new_face] = old_colors[old_face]]
                 ELSE new_colors,
                 old_colors, mapping, keys, i + 1)

\* the loop "for old_face, new_face in face_mapping.items()" from item i on
RECURSIVE apply_face_mapping(_, _, _, _, _)
apply_face_mapping(new_colors, old_colors, mapping, keys, i) ==
    IF i > Len(keys) THEN new_colors
    ELSE LET old_face == keys[i]
             new_face == mapping[old_face]
         IN  apply_face_mapping(
                 IF old_colors[old_face] # None
                 THEN [new_colors EXCEPT ![new_face] = old_colors[old_face]]
                 ELSE new_colors,
                 old_colors, mapping, keys, i + 1)

\* _rotate_cubie_colors that turns the labels against the position (the
\* tests "direction == 1" of lines 248 and 255 inverted)
_rotate_cubie_colors_reversed(old_cubie, new_cubie, rotation_axis, direction) ==
    [new_cubie EXCEPT !.colors =
        apply_face_mapping(new_cubie.colors, old_cubie.colors,
                           face_mapping(rotation_axis, -direction),
                           face_mapping_keys(rotation_axis), 1)]

\* _rotate_cubie_colors mutates new_cubie; here it returns it
_rotate_cubie_colors(old_cubie, new_cubie, rotation_axis, direction) ==
    [new_cubie EXCEPT !.colors =
        apply_face_mapping(new_cubie.colors, old_cubie.colors,
                           face_mapping(rotation_axis, direction),
                           face_mapping_keys(rotation_axis), 1)]

----------------------------------------------------------------------------
(* CubeModel.rotate_face *)

\* new_pos that sets both affected coordinates from the second one
\* (new_pos[a2] = pos[a2] for pos[a1] in line 177, -pos[a2] in line 183)
new_pos_from_a2(pos, axis, effective_dir) ==
    LET a1 == other_axes(axis)[1]
        a2 == other_axes(axis)[2]
    IN  IF effective_dir = 1
        THEN [[pos EXCEPT ![a1 + 1] = -pos[a2 + 1]] EXCEPT ![a2 + 1] = pos[a2 + 1]]
        ELSE [[pos EXCEPT ![a1 + 1] = pos[a2 + 1]] EXCEPT ![a2 + 1] = -pos[a2 + 1]]

\* new_pos that turns the same way whatever effective_dir is
new_pos_same_sense(pos, axis, effective_dir) ==
    LET a1 == other_axes(axis)[1]
        a2 == other_axes(axis)[2]
    IN  [[pos EXCEPT ![a1 + 1] = -pos[a2 + 1]] EXCEPT ![a2 + 1] = pos[a1 + 1]]

\* the new position of a cubie of the turned face (lines 174-184)
new_pos(pos, axis, effective_dir) ==
    LET a1 == other_axes(axis)[1]
        a2 == other_axes(axis)[2]
    IN  IF effective_dir = 1
        THEN [[pos EXCEPT ![a1 + 1] = -pos[a2 + 1]] EXCEPT ![a2 + 1] = pos[a1 + 1]]
        ELSE [[pos EXCEPT ![a1 + 1] = pos[a2 + 1]] EXCEPT ![a2 + 1] = -pos[a1 + 1]]

\* new_cubies that turns the middle layer of the axis instead of the face
\* (pos[axis] == 0 for pos[axis] == sign in lines 157 and 197)
new_cubies_middle_layer(cubies, axis, sign, direction, n) ==
    LET effective_dir == direction * sign
        face_cubies == {pos \in DOMAIN cubies : pos[axis + 1] = 0}
        rest == {pos \in DOMAIN cubies : pos[axis + 1] # 0}
        moved(pos) ==
            LET np == new_pos(pos, axis, effective_dir)
            IN  _rotate_cubie_colors(cubies[pos],
                                     NewCubie(n, np[1], np[2], np[3]),
                                     axis, effective_dir)
    IN  [q \in {new_pos(pos, axis, effective_dir) : pos \in face_cubies} \cup rest |->
            IF q \in rest THEN cubies[q]
            ELSE moved(CHOOSE pos \in face_cubies :
                           new_pos(pos, axis, effective_dir) = q)]

\* new_cubies that copies the cubies off the face into new objects
new_cubies_copy_rest(cubies, axis, sign, direction, n) ==
    LET effective_dir == direction * sign
        face_cubies == {pos \in DOMAIN cubies : pos[axis + 1] = sign}
        rest == {pos \in DOMAIN cubies : pos[axis + 1] # sign}
        moved(pos) ==
            LET np == new_pos(pos, axis, effective_dir)
            IN  _rotate_cubie_colors(cubies[pos],
                                     NewCubie(n, np[1], np[2], np[3]),
                                     axis, effective_dir)
    IN  [q \in {new_pos(pos, axis, effective_dir) : pos \in face_cubies} \cup rest |->
            IF q \in rest THEN [cubies[q] EXCEPT !.oid = <<n, q[1], q[2], q[3]>>]
            ELSE moved(CHOOSE pos \in face_cubies :
                           new_pos(pos, axis, effective_dir) = q)]

\* new_cubies: the cubies of the face are inserted at their new positions,
\* then the cubies off the face at their own (a later insert overwrites)
new_cubies(cubies, axis, sign, direction, n) ==
    LET effective_dir == direction * sign
        face_cubies == {pos \in DOMAIN cubies : pos[axis + 1] = sign}
        rest == {pos \in DOMAIN cubies : pos[axis + 1] # sign}
        moved(pos) ==
            LET np == new_pos(pos, axis, effective_dir)
            IN  _rotate_cubie_colors(cubies[pos],
                                     NewCubie(n, np[1], np[2], np[3]),
                                     axis, effective_dir)
    IN  [q \in {new_pos(pos, axis, effective_dir) : pos \in face_cubies} \cup rest |->
            IF q \in rest THEN cubies[q]
            ELSE moved(CHOOSE pos \in face_cubies :
                           new_pos(pos, axis, effective_dir) = q)]

\* rotate_face without the test of self.animating (lines 143-144)
rotate_face_no_gate(self, face, direction) ==
    LET history == Append(self.history, <<face, direction>>)
    IN  IF face \notin DOMAIN FACE_AXES
        THEN [self |-> [self EXCEPT !.history = history], ret |-> "KeyError"]
        ELSE LET axis == FACE_AXES[face][1]
                 sign == FACE_AXES[face][2]
             IN  [self |-> [self EXCEPT
                               !.history = history,
                               !.cubies = new_cubies(self.cubies, axis, sign,
                                                     direction, Len(history))],
                  ret |-> "True"]

\* rotate_face: the model after the call, and what the call returned
rotate_face(self, face, direction) ==
    IF self.animating
    THEN [self |-> self, ret |-> "False"]
    ELSE LET history == Append(self.history, <<face, direction>>)
         IN  IF face \notin DOMAIN FACE_AXES
             THEN [self |-> [self EXCEPT !.history = history], ret |-> "KeyError"]
             ELSE LET axis == FACE_AXES[face][1]
                      sign == FACE_AXES[face][2]
                  IN  [self |-> [self EXCEPT
                                    !.history = history,
                                    !.cubies = new_cubies(self.cubies, axis, sign,
                                                          direction, Len(history))],
                       ret |-> "True"]

\* a sequence of rotate_face calls that stops at the first call that raises
RECURSIVE rotate_faces(_, _, _)
rotate_faces(self, moves, i) ==
    IF i > Len(moves) THEN [self |-> self, ret |-> "True"]
    ELSE LET r == rotate_face(self, moves[i][1], moves[i][2])
         IN  IF r.ret = "KeyError" THEN r
             ELSE rotate_faces(r.self, moves, i + 1)

\* randomize whose loop makes one move less (range(num_moves - 1))
randomize_one_less(self, moves) ==
    IF self.animating
    THEN [self |-> self, ret |-> "False"]
    ELSE rotate_faces(self, SubSeq(moves, 1, Len(moves) - 1), 1)

\* CubeModel.randomize, for the moves that random.choice draws
randomize(self, moves) ==
    IF self.animating
    THEN [self |-> self, ret |-> "False"]
    ELSE rotate_faces(self, moves, 1)

\* get_solution that negates the directions but does not reverse the order
get_solution_forward(self) ==
    [i \in 1 .. Len(self.history) |->
        <<self.history[i][1], -self.history[i][2]>>]

\* CubeModel.get_solution
get_solution(self) ==
    [i \in 1 .. Len(self.history) |->
        LET m == self.history[Len(self.history) + 1 - i]
        IN  <<m[1], -m[2]>>]

\* a call of get_solution that reverses self.history in place
\* (self.history.reverse() for reversed(self.history))
call_get_solution_in_place(self) ==
    [self |-> [self EXCEPT !.history =
                  [i \in 1 .. Len(self.history) |->
                      self.history[Len(self.history) + 1 - i]]],
     ret |-> get_solution(self)]

\* a call of get_solution: the model after the call and the list returned;
\* reversed() reads the history, the moves are appended to a new list
call_get_solution(self) == [self |-> self, ret |-> get_solution(self)]

\* FallbackGUI.solve_cube
solve_cube(self) == rotate_faces(self, get_solution(self), 1)

\* is_solved that returns True as soon as one face was found uniform
is_solved_any_face(self) ==
    \E face_idx \in DOMAIN FACE_AXES :
        LET axis == FACE_AXES[face_idx][1]
            sign == FACE_AXES[face_idx][2]
            key == face_key(axis, sign)
            cubies_on_face == {pos \in DOMAIN self.cubies : pos[axis + 1] = sign}
            center_color == self.cubies[[<<0, 0, 0>> EXCEPT ![axis + 1] = sign]].colors[key]
        IN  \A pos \in cubies_on_face : self.cubies[pos].colors[key] = center_color

\* is_solved that returns True after the first face (face 0) was found uniform
is_solved_first_face(self) ==
    LET axis == FACE_AXES[0][1]
        sign == FACE_AXES[0][2]
        key == face_key(axis, sign)
        cubies_on_face == {pos \in DOMAIN self.cubies : pos[axis + 1] = sign}
        center_color == self.cubies[<<0, 0, 1>>].colors[key]
    IN  \A pos \in cubies_on_face : self.cubies[pos].colors[key] = center_color

\* CubeModel.is_solved
is_solved(self) ==
    \A face_idx \in DOMAIN FACE_AXES :
        LET axis == FACE_AXES[face_idx][1]
            sign == FACE_AXES[face_idx][2]
            key == face_key(axis, sign)
            cubies_on_face == {pos \in DOMAIN self.cubies : pos[axis + 1] = sign}
            centers == {pos \in cubies_on_face :
                            \A i \in 0 .. 2 : i # axis => pos[i + 1] = 0}
            center_color ==
                IF centers = {} THEN None
                ELSE self.cubies[CHOOSE pos \in centers : TRUE].colors[key]
        IN  \A pos \in cubies_on_face : self.cubies[pos].colors[key] = center_color

\* a call of is_solved: the model after the call and the value returned; the
\* method reads self.cubies and assigns only to its locals
call_is_solved(self) ==
    [self |-> self, ret |-> IF is_solved(self) THEN "True" ELSE "False"]

\* _get_coordinate_mapping with the columns of the Front grid numbered as
\* those of the Back grid (line 352 as return 2 - c2, c1)
_get_coordinate_mapping_front(axis, sign) ==
    [pos \in (0 .. 2) \X (0 .. 2) \X (0 .. 2) |->
        LET c1 == pos[other_axes(axis)[1] + 1]
            c2 == pos[other_axes(axis)[2] + 1]
        IN  IF axis = 0
            THEN (IF sign > 0 THEN <<2 - c2, c1>> ELSE <<2 - c2, 2 - c1>>)
            ELSE IF axis = 1
                 THEN <<2 - c2, c1>>
                 ELSE (IF sign > 0 THEN <<c2, c1>> ELSE <<2 - c2, c1>>)]

\* map_func, the function _get_coordinate_mapping returns, on the
\* normalized position pos (coordinates 0 .. 2, indexed from 0 in Python)
_get_coordinate_mapping(axis, sign) ==
    [pos \in (0 .. 2) \X (0 .. 2) \X (0 .. 2) |->
        LET c1 == pos[other_axes(axis)[1] + 1]
            c2 == pos[other_axes(axis)[2] + 1]
        IN  IF axis = 0
            THEN (IF sign > 0 THEN <<2 - c2, c1>> ELSE <<2 - c2, 2 - c1>>)
            ELSE IF axis = 1
                 THEN (IF sign > 0 THEN <<2 - c2, 2 - c1>> ELSE <<2 - c2, c1>>)
                 ELSE (IF sign > 0 THEN <<c2, c1>> ELSE <<2 - c2, c1>>)]

\* CubeModel.get_face_colors: the grid as a function of <<row, col>>; a cell
\* no cubie is mapped to keeps the 0 of np.zeros
get_face_colors(self, face) ==
    LET axis == FACE_AXES[face][1]
        sign == FACE_AXES[face][2]
        key == face_key(axis, sign)
        coord_map == _get_coordinate_mapping(axis, sign)
        at(rc) == {pos \in DOMAIN self.cubies :
                      /\ pos[axis + 1] = sign
                      /\ coord_map[<<pos[1] + 1, pos[2] + 1, pos[3] + 1>>] = rc}
    IN  [rc \in (0 .. 2) \X (0 .. 2) |->
            IF at(rc) = {} THEN 0
            ELSE self.cubies[CHOOSE pos \in at(rc) : TRUE].colors[key]]

\* the dict object self.cubies: the constructor makes one, and every
\* successful rotate_face makes a new one (line 201) together with the nine
\* Cubie objects of its call, so the greatest call number among the cubies
\* names the dict
dict_id(cubies) ==
    CHOOSE n \in {cubies[p].oid[1] : p \in DOMAIN cubies} :
        \A p \in DOMAIN cubies : cubies[p].oid[1] <= n

\* copy.deepcopy of a dict of cubies: a new dict (named -1) whose values
\* are new Cubie objects (named <<-1, x, y, z>>) with new colors dicts
deepcopy(cubies) ==
    [dict |-> -1,
     cubies |-> [p \in DOMAIN cubies |->
                    [cubies[p] EXCEPT !.oid = <<-1, p[1], p[2], p[3]>>]]]

\* get_state that returns self.cubies.copy(): a new dict of the same objects
get_state_shallow(self) == [dict |-> -1, cubies |-> self.cubies]

\* CubeModel.get_state
get_state(self) == deepcopy(self.cubies)

\* Python's write obj.colors[key] = color to the Cubie object named oid, as
\* seen through a dict that may hold this object
write_color(cubies, oid, key, color) ==
    [p \in DOMAIN cubies |->
        IF cubies[p].oid = oid
        THEN [cubies[p] EXCEPT !.colors[key] = color]
        ELSE cubies[p]]

\* FallbackGUI.render_cube: where the unfolded net puts the top left corner
\* of each face, as <<x, y>> in half cells from the centre of the canvas
net_origin ==
    0 :> <<-3, -8>> @@ 1 :> <<-3, 2>> @@ 2 :> <<3, -3>> @@
    3 :> <<-9, -3>> @@ 4 :> <<-3, -3>> @@ 5 :> <<9, -3>>

----------------------------------------------------------------------------
(* The state machine: a client that calls the model directly, as the 2-D   *)
(* view and the controller do, and the animation driver of the 3-D view.   *)

\* the moves a caller chooses among
Moves == faces \X directions

\* the callers stop making moves once the history holds MaxMoves entries
CanMove == Len(cube_model.history) < MaxMoves

Init ==
    /\ cube_model = CubeModel
    /\ current_animation = NoAnimation
    /\ last = [op |-> "__init__", ret |-> "None"]
    /\ snapshot = NoSnapshot
    /\ timers = {}

\* cube_model.rotate_face(face, direction), called directly
RotateFace(face, direction) ==
    /\ CanMove
    /\ LET r == rotate_face(cube_model, face, direction)
       IN  /\ cube_model' = r.self
           /\ last' = [op |-> "rotate_face", ret |-> r.ret]
    /\ UNCHANGED <<current_animation, snapshot, timers>>

\* cube_model.randomize(num_moves), drawing the moves `moves`
Randomize(num_moves) ==
    /\ Len(cube_model.history) + num_moves <= MaxMoves
    /\ \E moves \in [1 .. num_moves -> Moves] :
          LET r == randomize(cube_model, moves)
          IN  /\ cube_model' = r.self
              /\ last' = [op |-> "randomize", ret |-> r.ret]
    /\ UNCHANGED <<current_animation, snapshot, timers>>

\* FallbackGUI.solve_cube
SolveCube ==
    /\ Len(cube_model.history) <= MaxMoves
    /\ LET r == solve_cube(cube_model)
       IN  /\ cube_model' = r.self
           /\ last' = [op |-> "solve_cube", ret |-> r.ret]
    /\ UNCHANGED <<current_animation, snapshot, timers>>

\* CubeRenderer.start_animation on the model self, with the renderer's
\* current_animation: the two after the call, and what the call returned
start_animation(self, current, face, direction) ==
    IF ~self.animating
    THEN [self |-> [self EXCEPT !.animating = TRUE],
          current_animation |-> <<face, direction>>,
          ret |-> "True"]
    ELSE [self |-> self, current_animation |-> current, ret |-> "False"]

\* update_animation that calls rotate_face before it resets the animation
\* state (lines 100-101 after line 104)
update_animation_rotate_first(self, current, complete) ==
    IF ~self.animating \/ current = NoAnimation \/ ~complete
    THEN [self |-> self, current_animation |-> current, ret |-> "False"]
    ELSE LET r == rotate_face(self, current[1], current[2])
         IN  [self |-> [r.self EXCEPT !.animating = FALSE],
              current_animation |-> NoAnimation,
              ret |-> IF r.ret = "KeyError" THEN r.ret ELSE "True"]

\* CubeRenderer.update_animation; complete says whether progress >= 1.0
update_animation(self, current, complete) ==
    IF ~self.animating \/ current = NoAnimation \/ ~complete
    THEN [self |-> self, current_animation |-> current, ret |-> "False"]
    ELSE LET r == rotate_face([self EXCEPT !.animating = FALSE],
                              current[1], current[2])
         IN  [self |-> r.self,
              current_animation |-> NoAnimation,
              ret |-> IF r.ret = "KeyError" THEN r.ret ELSE "True"]

\* renderer.start_animation(face, direction)
StartAnimation(face, direction) ==
    /\ CanMove
    /\ LET r == start_animation(cube_model, current_animation, face, direction)
       IN  /\ cube_model' = r.self
           /\ current_animation' = r.current_animation
           /\ last' = [op |-> "start_animation", ret |-> r.ret]
    /\ UNCHANGED <<snapshot, timers>>

\* renderer.update_animation(), as the animation loop calls it; complete
\* says whether progress >= 1.0, that is whether animation_duration has
\* elapsed since start_animation
UpdateAnimation(complete) ==
    /\ LET r == update_animation(cube_model, current_animation, complete)
       IN  /\ cube_model' = r.self
           /\ current_animation' = r.current_animation
           /\ last' = [op |-> "update_animation", ret |-> r.ret]
    /\ UNCHANGED <<snapshot, timers>>

Next ==
    \/ \E face \in faces \cup InvalidFaces, direction \in directions :
          RotateFace(face, direction)
    \/ \E num_moves \in 0 .. MaxRandom : Randomize(num_moves)
    \/ SolveCube
    \/ \E face \in faces, direction \in directions : StartAnimation(face, direction)
    \/ \E complete \in BOOLEAN : UpdateAnimation(complete)

Spec == Init /\ [][Next]_vars

----------------------------------------------------------------------------
(* The cube alone: a caller that only turns faces.  It makes up to         *)
(* MaxMoves arbitrary turns, or repeats one same turn up to MaxTurns times *)

CanTurn(move) ==
    LET h == cube_model.history
    IN  \/ Len(h) < MaxMoves
        \/ /\ Len(h) < MaxTurns
           /\ \A i \in 1 .. Len(h) : h[i] = move

\* cube_model.rotate_face(face, direction) with a face of the cube
Turn(face, direction) ==
    /\ CanTurn(<<face, direction>>)
    /\ LET r == rotate_face(cube_model, face, direction)
       IN  /\ cube_model' = r.self
           /\ last' = [op |-> "rotate_face", ret |-> r.ret]
    /\ UNCHANGED <<current_animation, snapshot, timers>>

NextTurns == \E face \in faces, direction \in directions : Turn(face, direction)

SpecTurns == Init /\ [][NextTurns]_vars

----------------------------------------------------------------------------
(* A caller of get_state() that keeps the dict it got and writes to it,    *)
(* while faces of the cube are turned                                      *)

\* the turns made while a snapshot may be held: one face of each axis
SnapshotMoves == {<<0, 1>>, <<2, -1>>, <<4, 1>>}
\* the entries of the snapshot the caller writes to, deletes and adds
SnapshotWritten == <<1, 1, 1>>
SnapshotDeleted == <<0, 0, 1>>
SnapshotAdded == <<0, 0, 0>>

\* cube_model.rotate_face(face, direction): it binds self.cubies to a new
\* dict and writes only to the Cubie objects it has created
TurnWithSnapshot(face, direction) ==
    /\ Len(cube_model.history) < MaxSnapshotMoves
    /\ LET r == rotate_face(cube_model, face, direction)
       IN  /\ cube_model' = r.self
           /\ last' = [op |-> "rotate_face", ret |-> r.ret]
    /\ UNCHANGED <<current_animation, snapshot, timers>>

\* cubies = self.cube_model.get_state()
GetState ==
    /\ snapshot' = get_state(cube_model)
    /\ last' = [op |-> "get_state", ret |-> "dict"]
    /\ UNCHANGED <<cube_model, current_animation, timers>>

\* cubies[pos].colors[key] = color on the snapshot
SnapshotSetColor(pos, key, color) ==
    /\ snapshot # NoSnapshot
    /\ pos \in DOMAIN snapshot.cubies
    /\ LET oid == snapshot.cubies[pos].oid
       IN  /\ snapshot' = [snapshot EXCEPT
                              !.cubies = write_color(@, oid, key, color)]
           /\ cube_model' = [cube_model EXCEPT
                                !.cubies = write_color(@, oid, key, color)]
    /\ last' = [op |-> "snapshot_set_color", ret |-> "None"]
    /\ UNCHANGED <<current_animation, timers>>

\* del cubies[pos] on the snapshot
SnapshotDelete(pos) ==
    /\ snapshot # NoSnapshot
    /\ pos \in DOMAIN snapshot.cubies
    /\ LET without(cubies) == [p \in (DOMAIN cubies) \ {pos} |-> cubies[p]]
       IN  /\ snapshot' = [snapshot EXCEPT !.cubies = without(@)]
           /\ cube_model' =
                 IF snapshot.dict = dict_id(cube_model.cubies)
                 THEN [cube_model EXCEPT !.cubies = without(@)]
                 ELSE cube_model
    /\ last' = [op |-> "snapshot_delete", ret |-> "None"]
    /\ UNCHANGED <<current_animation, timers>>

\* cubies[pos] = Cubie(*pos) on the snapshot, the Cubie made by the caller
SnapshotInsert(pos) ==
    /\ snapshot # NoSnapshot
    /\ LET with(cubies) ==
               [p \in (DOMAIN cubies) \cup {pos} |->
                   IF p = pos THEN NewCubie(-2, pos[1], pos[2], pos[3])
                   ELSE cubies[p]]
       IN  /\ snapshot' = [snapshot EXCEPT !.cubies = with(@)]
           /\ cube_model' =
                 IF snapshot.dict = dict_id(cube_model.cubies)
                 THEN [cube_model EXCEPT !.cubies = with(@)]
                 ELSE cube_model
    /\ last' = [op |-> "snapshot_insert", ret |-> "None"]
    /\ UNCHANGED <<current_animation, timers>>

NextSnapshot ==
    \/ \E move \in SnapshotMoves : TurnWithSnapshot(move[1], move[2])
    \/ GetState
    \/ \E color \in {GREEN, None} : SnapshotSetColor(SnapshotWritten, "z+", color)
    \/ SnapshotDelete(SnapshotDeleted)
    \/ SnapshotInsert(SnapshotAdded)

SpecSnapshot == Init /\ [][NextSnapshot]_vars

----------------------------------------------------------------------------
(* The reset handlers of the three front ends and a caller of              *)
(* get_solution, with the animation driver                                 *)

\* _reset_cube without the test of line 168: a new model in every case
GuiResetCube_ungated ==
    /\ cube_model' = CubeModel
    /\ last' = [op |-> "RubiksCubeGUI._reset_cube", ret |-> "None"]
    /\ UNCHANGED <<current_animation, snapshot, timers>>

\* RubiksCubeGUI._reset_cube: a new model, unless an animation is running
GuiResetCube ==
    /\ cube_model' = IF ~cube_model.animating THEN CubeModel ELSE cube_model
    /\ last' = [op |-> "RubiksCubeGUI._reset_cube", ret |-> "None"]
    /\ UNCHANGED <<current_animation, snapshot, timers>>

\* AppController.reset_cube: a new model, handed to the view
ControllerResetCube ==
    /\ cube_model' = CubeModel
    /\ last' = [op |-> "AppController.reset_cube", ret |-> "None"]
    /\ UNCHANGED <<current_animation, snapshot, timers>>

\* FallbackGUI.reset_cube: a new model
FallbackResetCube ==
    /\ cube_model' = CubeModel
    /\ last' = [op |-> "FallbackGUI.reset_cube", ret |-> "None"]
    /\ UNCHANGED <<current_animation, snapshot, timers>>

\* cube_model.get_solution()
GetSolution ==
    /\ cube_model' = call_get_solution(cube_model).self
    /\ last' = [op |-> "get_solution", ret |-> "list"]
    /\ UNCHANGED <<current_animation, snapshot, timers>>

NextReset ==
    \/ \E face \in faces, direction \in directions : StartAnimation(face, direction)
    \/ \E complete \in BOOLEAN : UpdateAnimation(complete)
    \/ GuiResetCube
    \/ ControllerResetCube
    \/ FallbackResetCube
    \/ GetSolution

SpecReset == Init /\ [][NextReset]_vars

----------------------------------------------------------------------------
(* A caller of randomize, with the animation driver                        *)

\* the moves that are animated while randomize is called
AnimatedMoves == {<<0, 1>>, <<3, -1>>}

\* cube_model.randomize(num_moves), drawing the moves `moves`; the caller
\* remembers the num_moves it passed
CallRandomize(num_moves) ==
    /\ Len(cube_model.history) + num_moves <= MaxMoves
    /\ \E moves \in [1 .. num_moves -> Moves] :
          LET r == randomize(cube_model, moves)
          IN  /\ cube_model' = r.self
              /\ last' = [op |-> "randomize", ret |-> r.ret,
                          num_moves |-> num_moves]
    /\ UNCHANGED <<current_animation, snapshot, timers>>

NextRandomize ==
    \/ \E num_moves \in 0 .. MaxRandom : CallRandomize(num_moves)
    \/ \E move \in AnimatedMoves : StartAnimation(move[1], move[2])
    \/ \E complete \in BOOLEAN : UpdateAnimation(complete)

SpecRandomize == Init /\ [][NextRandomize]_vars

----------------------------------------------------------------------------
(* The 3-D GUI (RubiksCubeGUI): the handlers of the buttons, the           *)
(* _animate_solution calls that Solve schedules with root.after, and the   *)
(* animation loop.  Tk runs them one at a time, in any order: a scheduled  *)
(* call runs once the event loop gets to it, not at an exact time.         *)

\* the face buttons that are pressed: (face, direction) of their commands
GuiMoves == {<<0, 1>>, <<4, -1>>}

\* num_moves of self.cube_model.randomize(20)
GuiRandomizeMoves == 20

\* RubiksCubeGUI._animate_solution(moves, index), index counted from 0; the
\* model, the renderer's current_animation and the scheduled calls after it
_animate_solution(self, current, scheduled, moves, index) ==
    IF index >= Len(moves) \/ self.animating
    THEN [self |-> self, current_animation |-> current, timers |-> scheduled]
    ELSE LET r == start_animation(self, current,
                                  moves[index + 1][1], moves[index + 1][2])
         IN  [self |-> r.self,
              current_animation |-> r.current_animation,
              timers |-> scheduled \cup {[moves |-> moves, index |-> index + 1]}]

\* a face button: RubiksCubeGUI._rotate_face(face, direction)
GuiRotateFace(face, direction) ==
    /\ Len(cube_model.history) < MaxGuiHistory
    /\ IF ~cube_model.animating
       THEN LET r == start_animation(cube_model, current_animation, face, direction)
            IN  /\ cube_model' = r.self
                /\ current_animation' = r.current_animation
                /\ last' = [op |-> "RubiksCubeGUI._rotate_face", ret |-> r.ret]
       ELSE /\ last' = [op |-> "RubiksCubeGUI._rotate_face", ret |-> "False"]
            /\ UNCHANGED <<cube_model, current_animation>>
    /\ UNCHANGED <<snapshot, timers>>

\* the Randomize button: RubiksCubeGUI._randomize_cube; random.choice draws
\* one same move every time
GuiRandomizeCube ==
    /\ Len(cube_model.history) < MaxGuiHistory
    /\ IF ~cube_model.animating
       THEN \E move \in GuiMoves :
                cube_model' =
                    randomize(cube_model, [i \in 1 .. GuiRandomizeMoves |-> move]).self
       ELSE UNCHANGED cube_model
    /\ last' = [op |-> "RubiksCubeGUI._randomize_cube", ret |-> "None"]
    /\ UNCHANGED <<current_animation, snapshot, timers>>

\* the Solve button: RubiksCubeGUI._solve_cube, which makes the call
\* _animate_solution(solution, 0) itself
GuiSolveCube ==
    /\ Len(cube_model.history) < MaxGuiHistory
    /\ Cardinality(timers) < MaxTimers
    /\ IF ~cube_model.animating
       THEN LET s == call_get_solution(cube_model)
                r == _animate_solution(s.self, current_animation, timers, s.ret, 0)
            IN  /\ cube_model' = r.self
                /\ current_animation' = r.current_animation
                /\ timers' = r.timers
       ELSE UNCHANGED <<cube_model, current_animation, timers>>
    /\ last' = [op |-> "RubiksCubeGUI._solve_cube", ret |-> "None"]
    /\ UNCHANGED snapshot

\* a scheduled call _animate_solution(moves, index) runs
AnimateSolution ==
    /\ \E call \in timers :
          LET r == _animate_solution(cube_model, current_animation,
                                     timers \ {call}, call.moves, call.index)
          IN  /\ cube_model' = r.self
              /\ current_animation' = r.current_animation
              /\ timers' = r.timers
              /\ last' = [op |-> "RubiksCubeGUI._animate_solution", ret |-> "None",
                          moves |-> call.moves, index |-> call.index]
    /\ UNCHANGED snapshot

\* Reset Cube is pressed while no _animate_solution call is scheduled
NextGui ==
    \/ \E move \in GuiMoves : GuiRotateFace(move[1], move[2])
    \/ (timers = {} /\ GuiResetCube)
    \/ GuiRandomizeCube
    \/ GuiSolveCube
    \/ AnimateSolution
    \/ \E complete \in BOOLEAN : UpdateAnimation(complete)

SpecGui == Init /\ [][NextGui]_vars

\* an animation is running: update_animation would complete it, were
\* progress >= 1.0
AnimationRuns == cube_model.animating /\ current_animation # NoAnimation

\* _animation_loop schedules itself again at the end of every run, and the
\* time since start_animation grows: while an animation is running, a call
\* of update_animation that finds progress >= 1.0 is made sooner or later.
\* This is the weak fairness WF_vars(UpdateAnimation(TRUE)) of that call,
\* with the state predicate AnimationRuns written for ENABLED.
AnimationLoopFairness ==
    \/ []<>(~AnimationRuns)
    \/ []<><<UpdateAnimation(TRUE)>>_vars

SpecGuiFair == SpecGui /\ AnimationLoopFairness

----------------------------------------------------------------------------
(* The face buttons of the two GUIs.  The text of a button, "Front CW", is *)
(* the pair <<"Front", "CW">> here.                                        *)

ButtonNames == {"Top", "Bottom", "Right", "Left", "Front", "Back"}
ButtonLabels == ButtonNames \X {"CW", "CCW"}

\* face_buttons of RubiksCubeGUI._create_control_buttons: the (face,
\* direction) that the command of the button passes to _rotate_face
face_buttons ==
    [label \in ButtonLabels |->
        <<CASE label[1] = "Top" -> 0
            [] label[1] = "Bottom" -> 1
            [] label[1] = "Front" -> 2
            [] label[1] = "Back" -> 3
            [] label[1] = "Left" -> 4
            [] label[1] = "Right" -> 5,
          IF label[2] = "CW" THEN 1 ELSE -1>>]

\* faces of FallbackGUI._create_face_buttons: the (face, direction) that the
\* command of the button passes to rotate_face
fallback_face_buttons ==
    [label \in ButtonLabels |->
        <<CASE label[1] = "Top" -> 0
            [] label[1] = "Bottom" -> 1
            [] label[1] = "Right" -> 2
            [] label[1] = "Left" -> 3
            [] label[1] = "Front" -> 4
            [] label[1] = "Back" -> 5,
          IF label[2] = "CW" THEN 1 ELSE -1>>]

\* FallbackGUI.rotate_face: the model after the call
fallback_rotate_face(self, face, direction) ==
    IF ~self.animating THEN rotate_face(self, face, direction).self ELSE self

\* a face button of the 3-D GUI is pressed
GuiFaceButton(label) ==
    /\ CanMove
    /\ LET face == face_buttons[label][1]
           direction == face_buttons[label][2]
       IN  IF ~cube_model.animating
           THEN LET r == start_animation(cube_model, current_animation, face, direction)
                IN  /\ cube_model' = r.self
                    /\ current_animation' = r.current_animation
           ELSE UNCHANGED <<cube_model, current_animation>>
    /\ last' = [op |-> "RubiksCubeGUI._rotate_face", ret |-> "None", label |-> label]
    /\ UNCHANGED <<snapshot, timers>>

\* a face button of the 2-D GUI is pressed
FallbackFaceButton(label) ==
    /\ CanMove
    /\ cube_model' = fallback_rotate_face(cube_model,
                                          fallback_face_buttons[label][1],
                                          fallback_face_buttons[label][2])
    /\ last' = [op |-> "FallbackGUI.rotate_face", ret |-> "None", label |-> label]
    /\ UNCHANGED <<current_animation, snapshot, timers>>

NextButtons ==
    \/ \E label \in ButtonLabels : GuiFaceButton(label)
    \/ \E label \in ButtonLabels : FallbackFaceButton(label)
    \/ \E complete \in BOOLEAN : UpdateAnimation(complete)

SpecButtons == Init /\ [][NextButtons]_vars

----------------------------------------------------------------------------
(* CubeRenderer._draw_animated_cube: where the 3-D view draws the cubies   *)
(* at the start (progress 0) and at the end (progress 1) of an animation   *)

\* the angle without the reversal for faces 4 and 5 (lines 158-159 left out)
animation_angle_no_reverse(face, direction, progress) ==
    90 * progress * direction

\* angle, in degrees, for progress 0 or 1
animation_angle(face, direction, progress) ==
    IF face \in {4, 5}
    THEN 90 * progress * (-direction)
    ELSE 90 * progress * direction

\* rotation_axis: the unit vector of the face
rotation_axis(face) ==
    [<<0, 0, 0>> EXCEPT ![FACE_AXES[face][1] + 1] = FACE_AXES[face][2]]

\* glRotatef(angle, x, y, z) applied to the point v, for an angle of -90, 0
\* or 90 degrees and a unit vector u = <<x, y, z>>: the right-handed rotation
\* by angle about u,  v cos + (u x v) sin + u (u . v) (1 - cos)
glRotatef(angle, u, v) ==
    LET sin == angle \div 90
        cos == IF angle = 0 THEN 1 ELSE 0
        cross == <<u[2] * v[3] - u[3] * v[2],
                   u[3] * v[1] - u[1] * v[3],
                   u[1] * v[2] - u[2] * v[1]>>
        dot == u[1] * v[1] + u[2] * v[2] + u[3] * v[3]
    IN  [i \in 1 .. 3 |-> v[i] * cos + cross[i] * sin + u[i] * dot * (1 - cos)]

\* _draw_animated_cube: for every key of the cubies, the point (in units of
\* cube_size) where the centre of its cubie is drawn
_draw_animated_cube(cubies, face, direction, progress) ==
    LET axis == FACE_AXES[face][1]
        sign == FACE_AXES[face][2]
        angle == animation_angle(face, direction, progress)
    IN  [pos \in DOMAIN cubies |->
            LET at == <<cubies[pos].x, cubies[pos].y, cubies[pos].z>>
            IN  IF pos[axis + 1] = sign
                THEN glRotatef(angle, rotation_axis(face), at)
                ELSE at]

----------------------------------------------------------------------------
(* A caller that turns faces and asks is_solved() in between *)

\* cube_model.is_solved()
IsSolved ==
    LET r == call_is_solved(cube_model)
    IN  /\ cube_model' = r.self
        /\ last' = [op |-> "is_solved", ret |-> r.ret]
        /\ UNCHANGED <<current_animation, snapshot, timers>>

NextIsSolved ==
    \/ \E face \in faces, direction \in directions : Turn(face, direction)
    \/ IsSolved

SpecIsSolved == Init /\ [][NextIsSolved]_vars

----------------------------------------------------------------------------
(* What the claims speak of *)

\* the position -> cubie mapping as a value: the keys, and the position and
\* the six label colours of every cubie (not which object holds them)
Appearance(cubies) ==
    [p \in DOMAIN cubies |->
        [x |-> cubies[p].x, y |-> cubies[p].y, z |-> cubies[p].z,
         colors |-> cubies[p].colors]]

\* n consecutive calls rotate_face(face, direction)
RECURSIVE Turns(_, _, _, _)
Turns(self, face, direction, n) ==
    IF n = 0 THEN self
    ELSE Turns(rotate_face(self, face, direction).self, face, direction, n - 1)

\* the number of labels, over all cubies, that hold the colour c
ColourCount(cubies, c) ==
    Cardinality({pk \in (DOMAIN cubies) \X (DOMAIN face_to_axis) :
                    cubies[pk[1]].colors[pk[2]] = c})

\* every entry of the history names a face of the cube
ValidHistory(self) ==
    \A i \in 1 .. Len(self.history) : self.history[i][1] \in faces

\* the model after replaying the first n entries of a history on a new cube
Replay(history, n) == rotate_faces(CubeModel, SubSeq(history, 1, n), 1).self

----------------------------------------------------------------------------
(* C1 - C30 *)

\* C1 (Inverse): in every reachable cube state, for every face and both
\* orders of the directions, rotate_face(face, d) followed by
\* rotate_face(face, -d) leaves the keys, the positions and the six label
\* colours of every cubie as they were.
C1_Inverse ==
    \A face \in faces, d \in directions :
        LET once == rotate_face(cube_model, face, d)
            back == rotate_face(once.self, face, -d)
        IN  /\ once.ret = "True"
            /\ back.ret = "True"
            /\ Appearance(back.self.cubies) = Appearance(cube_model.cubies)

\* C1 happened: a face was turned by +1 and then by -1, its cubies were
\* rebuilt by the second call, the cube was not as before in between and is
\* as before after the two calls
C1_Witness ==
    LET h == cube_model.history
    IN  /\ Len(h) = 2
        /\ h[1][1] = h[2][1]
        /\ h[1][2] = 1
        /\ h[2][2] = -1
        /\ \E p \in DOMAIN cube_model.cubies : cube_model.cubies[p].oid[1] = 2
        /\ Appearance(Replay(h, 1).cubies) # Appearance(CubeModel.cubies)
        /\ Appearance(cube_model.cubies) = Appearance(CubeModel.cubies)

\* C2 (Closure): in every reachable cube state, for every face and direction,
\* four consecutive rotate_face(face, direction) calls leave the keys, the
\* positions and the colours of all cubies as they were.
C2_Closure ==
    \A face \in faces, d \in directions :
        Appearance(Turns(cube_model, face, d, 4).cubies) = Appearance(cube_model.cubies)

\* C2 happened: the same turn was made four times in a row, the cube was not
\* as at the start after one, two or three of them, and is after the fourth
C2_Witness ==
    LET h == cube_model.history
    IN  /\ Len(h) = 4
        /\ \A i \in 1 .. 4 : h[i] = h[1]
        /\ \A n \in 1 .. 3 :
              Appearance(Replay(h, n).cubies) # Appearance(CubeModel.cubies)
        /\ Appearance(cube_model.cubies) = Appearance(CubeModel.cubies)

\* C3 (History/inverse round trip): after any sequence of successful
\* rotations of a new cube (made by rotate_face, by randomize, by a completed
\* animation or by an earlier replay of get_solution()), applying the moves
\* of get_solution() in order through rotate_face, the gate being open,
\* leaves every cubie with the position and colours of the solved cube.
C3_RoundTrip ==
    (~cube_model.animating /\ ValidHistory(cube_model)) =>
        LET r == solve_cube(cube_model)
        IN  /\ r.ret = "True"
            /\ Appearance(r.self.cubies) = Appearance(CubeModel.cubies)

\* C3 happened: solve_cube replayed the solution of a history that itself
\* ends with a replayed solution, from a cube that was scrambled before it
C3_Witness ==
    LET h == cube_model.history
    IN  /\ last = [op |-> "solve_cube", ret |-> "True"]
        /\ Len(h) = 4
        /\ ValidHistory(cube_model)
        /\ h[2] = <<h[1][1], -h[1][2]>>
        /\ h[3] = <<h[2][1], -h[2][2]>>
        /\ h[4] = <<h[1][1], -h[1][2]>>
        /\ Appearance(Replay(h, 3).cubies) # Appearance(CubeModel.cubies)
        /\ Appearance(cube_model.cubies) = Appearance(CubeModel.cubies)

\* C4 (Colour conservation): in every reachable state the labels that hold a
\* colour are 54, and exactly 9 of them hold each of the six colours.
C4_ColourConservation ==
    /\ \A c \in Colors : ColourCount(cube_model.cubies, c) = 9
    /\ Cardinality({pk \in (DOMAIN cube_model.cubies) \X (DOMAIN face_to_axis) :
                       cube_model.cubies[pk[1]].colors[pk[2]] # None}) = 54

\* C4 happened: two turns of different axes have scrambled the cube
C4_Witness ==
    /\ Len(cube_model.history) = 2
    /\ ValidHistory(cube_model)
    /\ FACE_AXES[cube_model.history[1][1]][1] # FACE_AXES[cube_model.history[2][1]][1]
    /\ ~is_solved(cube_model)
    /\ \A c \in Colors : ColourCount(cube_model.cubies, c) = 9

\* C5 (Disjointness): a successful rotate_face(F, d) leaves every cubie whose
\* coordinate on F's axis differs from F's sign under the same key, and the
\* entry is the very same object with the same position and colours.
C5_Disjointness ==
    [][(last'.op \in {"rotate_face", "update_animation"} /\ last'.ret = "True") =>
          LET move == cube_model'.history[Len(cube_model'.history)]
              axis == FACE_AXES[move[1]][1]
              sign == FACE_AXES[move[1]][2]
          IN  \A p \in DOMAIN cube_model.cubies :
                 p[axis + 1] # sign =>
                    /\ p \in DOMAIN cube_model'.cubies
                    /\ cube_model'.cubies[p] = cube_model.cubies[p]]_vars

\* C5 happened: after two turns some cubie is still the object the
\* constructor made, one was made by the first turn and left alone by the
\* second, and one was made by the second
C5_Witness ==
    /\ last = [op |-> "rotate_face", ret |-> "True"]
    /\ Len(cube_model.history) = 2
    /\ \A n \in 0 .. 2 :
          \E p \in DOMAIN cube_model.cubies : cube_model.cubies[p].oid[1] = n

\* C6 (Solved detection): a new cube is solved, and after exactly one
\* rotate_face of a face 0 .. 5 by +1 or -1 it is not.
C6_SolvedDetection ==
    /\ cube_model.history = <<>> => is_solved(cube_model)
    /\ (Len(cube_model.history) = 1 /\ ValidHistory(cube_model)) =>
          ~is_solved(cube_model)

\* C6 happened: one face of the new cube was turned and is_solved says no
C6_Witness ==
    /\ last = [op |-> "rotate_face", ret |-> "True"]
    /\ Len(cube_model.history) = 1
    /\ ValidHistory(cube_model)
    /\ ~is_solved(cube_model)

\* C7 (Animating gate): while animating is true, a call of rotate_face or of
\* randomize returns False, raises nothing and changes neither the cubies
\* nor the history (nor anything else of the model).
C7_AnimatingGate ==
    [][(cube_model.animating /\ last'.op \in {"rotate_face", "randomize"}) =>
          /\ last'.ret = "False"
          /\ cube_model'.cubies = cube_model.cubies
          /\ cube_model'.history = cube_model.history
          /\ cube_model' = cube_model]_vars

\* C7 happened: rotate_face was called during an animation and refused
C7_Witness ==
    /\ cube_model.animating
    /\ current_animation # NoAnimation
    /\ last = [op |-> "rotate_face", ret |-> "False"]
    /\ Len(cube_model.history) = 1

\* C8 (Invalid face): a rotate_face call that fails on its face index leaves
\* the cubies and the history as they were before the call.
C8_InvalidFaceNoEffect ==
    [][(last'.op = "rotate_face" /\ last'.ret = "KeyError") =>
          /\ cube_model'.cubies = cube_model.cubies
          /\ cube_model'.history = cube_model.history]_vars

\* a rotation of the whole cube: it carries the axis i (0 .. 2) onto the axis
\* to[i + 1], and its positive direction onto the direction sgn[i + 1]
Cyclic == [to |-> <<1, 2, 0>>, sgn |-> <<1, 1, 1>>]
CyclicBack == [to |-> <<2, 0, 1>>, sgn |-> <<1, 1, 1>>]
HalfTurnX == [to |-> <<0, 1, 2>>, sgn |-> <<1, -1, -1>>]
WholeCubeRotations == {Cyclic, CyclicBack, HalfTurnX}

\* where a whole-cube rotation carries a position, a face key and a face
CarryPos(g, p) ==
    LET from(i) == CHOOSE j \in 1 .. 3 : g.to[j] + 1 = i
    IN  <<g.sgn[from(1)] * p[from(1)],
          g.sgn[from(2)] * p[from(2)],
          g.sgn[from(3)] * p[from(3)]>>

CarryKey(g, k) ==
    LET axis == face_to_axis[k][1]
        sign == face_to_axis[k][2]
    IN  face_key(g.to[axis + 1], g.sgn[axis + 1] * sign)

CarryFace(g, face) ==
    LET axis == FACE_AXES[face][1]
        sign == FACE_AXES[face][2]
    IN  CHOOSE f \in faces :
            FACE_AXES[f] = <<g.to[axis + 1], g.sgn[axis + 1] * sign>>

\* the cube carried as a whole: every cubie at its carried position, every
\* label on its carried side, the colours as they are
CarryCubies(g, cubies) ==
    [q \in {CarryPos(g, p) : p \in DOMAIN cubies} |->
        LET p == CHOOSE p \in DOMAIN cubies : CarryPos(g, p) = q
        IN  [oid |-> cubies[p].oid, x |-> q[1], y |-> q[2], z |-> q[3],
             colors |->
                [k \in DOMAIN face_to_axis |->
                    cubies[p].colors[CHOOSE j \in DOMAIN face_to_axis :
                                         CarryKey(g, j) = k]]]]

\* C9 (Uniform turn sense): in every reachable cube state, for every face
\* and every rotation of the whole cube that carries it onto another face
\* (the cyclic relabelling X->Y->Z->X, its inverse, the half-turn that
\* swaps opposite faces), turning the face by +1 and then carrying the cube
\* gives the same cubies as carrying the cube and then turning the carried
\* face by +1, and likewise for -1.
C9_UniformTurnSense ==
    \A g \in WholeCubeRotations, face \in faces, d \in directions :
        LET turned == rotate_face(cube_model, face, d).self
            carried == [cube_model EXCEPT !.cubies = CarryCubies(g, cube_model.cubies)]
        IN  Appearance(rotate_face(carried, CarryFace(g, face), d).self.cubies)
              = Appearance(CarryCubies(g, turned.cubies))

\* a 3x3 grid turned a quarter-turn: clockwise the colour at (r, c) moves to
\* (c, 2 - r), counter-clockwise to (2 - c, r)
TurnCW(grid) == [rc \in DOMAIN grid |-> grid[<<2 - rc[2], rc[1]>>]]
TurnCCW(grid) == [rc \in DOMAIN grid |-> grid[<<rc[2], 2 - rc[1]>>]]

\* C10 (Face grid orientation): in every reachable cube state and for every
\* face f, get_face_colors(f) after rotate_face(f, +1) is the grid before the
\* call turned clockwise, and after rotate_face(f, -1) the grid before the
\* call turned counter-clockwise.
C10_GridOrientation ==
    \A f \in faces :
        LET grid == get_face_colors(cube_model, f)
        IN  /\ get_face_colors(rotate_face(cube_model, f, 1).self, f) = TurnCW(grid)
            /\ get_face_colors(rotate_face(cube_model, f, -1).self, f) = TurnCCW(grid)

\* the position of the cubie whose label fills the cell rc of
\* get_face_colors(face)
CellCubie(self, face, rc) ==
    LET axis == FACE_AXES[face][1]
        sign == FACE_AXES[face][2]
        coord_map == _get_coordinate_mapping(axis, sign)
    IN  CHOOSE pos \in DOMAIN self.cubies :
            /\ pos[axis + 1] = sign
            /\ coord_map[<<pos[1] + 1, pos[2] + 1, pos[3] + 1>>] = rc

\* face b is drawn in the net right of face a, the two sharing an edge
Beside(a, b) ==
    /\ net_origin[a][2] = net_origin[b][2]
    /\ net_origin[b][1] - net_origin[a][1] = 6

\* face b is drawn in the net under face a, in the same columns
Below(a, b) ==
    /\ net_origin[a][1] = net_origin[b][1]
    /\ net_origin[b][2] - net_origin[a][2] \in 1 .. 6

\* C11 (Net alignment): in every state, for two faces drawn side by side in
\* the net the cell (r, 2) of the left one and the cell (r, 0) of the right
\* one are labels of the same cubie, and for two faces drawn one under the
\* other the cell (2, c) of the upper and the cell (0, c) of the lower one.
C11_NetAlignment ==
    \A a \in faces, b \in faces, i \in 0 .. 2 :
        /\ Beside(a, b) =>
              CellCubie(cube_model, a, <<i, 2>>) = CellCubie(cube_model, b, <<i, 0>>)
        /\ Below(a, b) =>
              CellCubie(cube_model, a, <<2, i>>) = CellCubie(cube_model, b, <<0, i>>)

\* C12 (Top-turn scenario): after rotate_face(0, +1) on the solved cube the
\* Top grid is all White; and in every reachable cube state, row 0 of the
\* Front grid after rotate_face(0, +1) equals row 0 of the Right grid before
\* the call, column by column.
C12_TopTurn ==
    LET after == rotate_face(cube_model, FACE_DIRECTIONS.top, 1).self
    IN  /\ cube_model.history = <<>> =>
              \A rc \in (0 .. 2) \X (0 .. 2) :
                  get_face_colors(after, FACE_DIRECTIONS.top)[rc] = WHITE
        /\ \A c \in 0 .. 2 :
              get_face_colors(after, FACE_DIRECTIONS.front)[<<0, c>>]
                = get_face_colors(cube_model, FACE_DIRECTIONS.right)[<<0, c>>]

\* C12 happened: the Top face was turned by +1 when the two ends of the top
\* row of the Right grid held different colours, and the top row of the Front
\* grid now holds the colours of that row, in the same columns
C12_Witness ==
    LET h == cube_model.history
    IN  /\ Len(h) = 2
        /\ h[2] = <<FACE_DIRECTIONS.top, 1>>
        /\ LET before == get_face_colors(Replay(h, 1), FACE_DIRECTIONS.right)
               now == get_face_colors(cube_model, FACE_DIRECTIONS.front)
           IN  /\ before[<<0, 0>>] # before[<<0, 2>>]
               /\ \A c \in 0 .. 2 : now[<<0, c>>] = before[<<0, c>>]

\* the snapshot and the model hold no object in common: not the dict, no Cubie
NothingShared ==
    snapshot # NoSnapshot =>
        /\ snapshot.dict # dict_id(cube_model.cubies)
        /\ \A p \in DOMAIN snapshot.cubies, q \in DOMAIN cube_model.cubies :
              snapshot.cubies[p].oid # cube_model.cubies[q].oid

\* C13 (Snapshot independence): the dict get_state() returned shares no
\* object with the model; a step that changes, adds or removes an entry or a
\* colour of the snapshot leaves the model as it was, and a rotate_face on
\* the model leaves a snapshot taken earlier as it was.
C13_SnapshotIndependence ==
    [][/\ NothingShared'
       /\ last'.op \in {"snapshot_set_color", "snapshot_delete", "snapshot_insert"} =>
             cube_model' = cube_model
       /\ last'.op = "rotate_face" => snapshot' = snapshot]_vars

\* C13 happened: a snapshot was taken of the new cube, a face was turned,
\* and then the snapshot lost an entry, got one and had a colour changed;
\* the model is the cube the turn made, the snapshot is no longer the new cube
C13_Witness ==
    /\ snapshot # NoSnapshot
    /\ last.op \in {"snapshot_set_color", "snapshot_delete", "snapshot_insert"}
    /\ Len(cube_model.history) = 1
    /\ SnapshotDeleted \notin DOMAIN snapshot.cubies
    /\ SnapshotAdded \in DOMAIN snapshot.cubies
    /\ snapshot.cubies[SnapshotWritten].colors["z+"] = GREEN
    /\ DOMAIN cube_model.cubies = InitialPositions
    /\ cube_model.cubies = Replay(cube_model.history, 1).cubies
    /\ \A p \in InitialPositions \ {SnapshotWritten, SnapshotDeleted} :
          Appearance(snapshot.cubies)[p] = Appearance(CubeModel.cubies)[p]

\* C14 (get_solution): the list get_solution() returns is as long as the
\* history, its i-th element is (face, -direction) of the i-th entry of the
\* history counted from the end, and the call leaves the history and the
\* cubies as they were.
C14_GetSolution ==
    [][last'.op = "get_solution" =>
          LET h == cube_model.history
              solution == call_get_solution(cube_model).ret
          IN  /\ Len(solution) = Len(h)
              /\ \A i \in 1 .. Len(h) :
                    /\ solution[i][1] = h[Len(h) + 1 - i][1]
                    /\ solution[i][2] = -h[Len(h) + 1 - i][2]
              /\ cube_model'.history = h
              /\ cube_model'.cubies = cube_model.cubies]_vars

\* C14 happened: get_solution was called with a history of two different
\* moves, whose solution is not the history read forward
C14_Witness ==
    /\ last.op = "get_solution"
    /\ Len(cube_model.history) = 2
    /\ cube_model.history[1][1] # cube_model.history[2][1]
    /\ get_solution(cube_model)[1][1] = cube_model.history[2][1]
    /\ get_solution(cube_model)[1][1] # cube_model.history[1][1]

\* C15 (History append-only and exact): every successful rotate_face(f, d)
\* extends the history by the one entry (f, d) at its end; no step removes,
\* reorders or alters an earlier entry; a call that is refused (returns
\* False or raises) adds none; and replaying the history on a new cube
\* succeeds and gives the current cubie mapping.
C15_HistoryAppendOnly ==
    [][LET h == cube_model.history
           h2 == cube_model'.history
           replay == rotate_faces(CubeModel, h2, 1)
       IN  /\ (last'.op = "rotate_face" /\ last'.ret = "True") =>
                 /\ Len(h2) = Len(h) + 1
                 /\ cube_model'.cubies =
                       rotate_face(cube_model, h2[Len(h2)][1], h2[Len(h2)][2]).self.cubies
           /\ Len(h2) >= Len(h)
           /\ SubSeq(h2, 1, Len(h)) = h
           /\ last'.ret \in {"False", "KeyError"} => h2 = h
           /\ replay.ret = "True"
           /\ Appearance(replay.self.cubies) = Appearance(cube_model'.cubies)]_vars

\* C16 (Randomize): randomize(n) called while not animating returns True,
\* the history grows by exactly n entries after the earlier ones, each with a
\* face in 0 .. 5 and a direction +1 or -1, and the cubies are those that
\* the n rotations, applied in the order of the new entries, give.
C16_Randomize ==
    [][(~cube_model.animating /\ last'.op = "randomize") =>
          LET h == cube_model.history
              h2 == cube_model'.history
              n == last'.num_moves
              added == SubSeq(h2, Len(h) + 1, Len(h2))
          IN  /\ last'.ret = "True"
              /\ Len(h2) = Len(h) + n
              /\ SubSeq(h2, 1, Len(h)) = h
              /\ \A i \in 1 .. n : added[i] \in faces \X directions
              /\ cube_model'.cubies = rotate_faces(cube_model, added, 1).self.cubies
              /\ ~cube_model'.animating]_vars

\* C16 happened: randomize(2) was called on the new cube and made two
\* different moves, the second of which changed the cube again
C16_Witness ==
    /\ last = [op |-> "randomize", ret |-> "True", num_moves |-> 2]
    /\ Len(cube_model.history) = 2
    /\ cube_model.history[1] # cube_model.history[2]
    /\ Appearance(cube_model.cubies) # Appearance(Replay(cube_model.history, 1).cubies)
    /\ Appearance(cube_model.cubies) # Appearance(CubeModel.cubies)

\* C17 (randomize(0)): randomize(0) returns True whatever the state of the
\* model, animating or not, and leaves the cubies and the history unchanged.
C17_RandomizeZero ==
    [][(last'.op = "randomize" /\ last'.num_moves = 0) =>
          /\ last'.ret = "True"
          /\ cube_model'.cubies = cube_model.cubies
          /\ cube_model'.history = cube_model.history]_vars

\* C19 (Reset always succeeds): after a reset handler has run, from any state
\* and also while an animation is running, the active cube is solved, its
\* cubies are those of a new cube and its history is empty.
C19_ResetAlwaysSucceeds ==
    [][last'.op \in {"RubiksCubeGUI._reset_cube", "AppController.reset_cube",
                     "FallbackGUI.reset_cube"} =>
          /\ is_solved(cube_model')
          /\ Appearance(cube_model'.cubies) = Appearance(CubeModel.cubies)
          /\ cube_model'.history = <<>>]_vars

\* C20 (Lattice invariant): in every reachable state the keys of the cubie
\* mapping are exactly the 26 triples of {-1, 0, 1}^3 other than (0, 0, 0)
\* and every cubie lies at its key; and for every face and direction the
\* position transform of the rotation maps the 9 positions of the face
\* one-to-one onto the same 9 positions.
C20_Lattice ==
    /\ DOMAIN cube_model.cubies = InitialPositions
    /\ Cardinality(DOMAIN cube_model.cubies) = 26
    /\ \A p \in DOMAIN cube_model.cubies :
          <<cube_model.cubies[p].x, cube_model.cubies[p].y, cube_model.cubies[p].z>> = p
    /\ \A face \in faces, direction \in directions :
          LET axis == FACE_AXES[face][1]
              sign == FACE_AXES[face][2]
              face_cubies == {p \in DOMAIN cube_model.cubies : p[axis + 1] = sign}
              image == {new_pos(p, axis, direction * sign) : p \in face_cubies}
          IN  /\ Cardinality(face_cubies) = 9
              /\ image = face_cubies

\* C20 happened: two faces that share cubies were turned, so that cubies were
\* carried from a position of one face to one of the other, and the cube
\* holds 9 cubies made by the second turn, 6 left by the first and 11 of the
\* constructor
C20_Witness ==
    /\ Len(cube_model.history) = 2
    /\ ValidHistory(cube_model)
    /\ Cardinality({p \in DOMAIN cube_model.cubies : cube_model.cubies[p].oid[1] = 2}) = 9
    /\ Cardinality({p \in DOMAIN cube_model.cubies : cube_model.cubies[p].oid[1] = 1}) = 6
    /\ Cardinality({p \in DOMAIN cube_model.cubies : cube_model.cubies[p].oid[1] = 0}) = 11

\* the labels of a cubie that hold a colour
Coloured(cubie) == {k \in DOMAIN face_to_axis : cubie.colors[k] # None}

\* the labels that face outwards at position p
Outward(p) ==
    {k \in DOMAIN face_to_axis : p[face_to_axis[k][1] + 1] = face_to_axis[k][2]}

\* C21 (Sticker invariant): in every reachable state, for every cubie at
\* position p and every label (axis, sign), the label holds a colour if and
\* only if p[axis] = sign; so a corner holds 3 colours, an edge 2 and a face
\* centre 1, and no cell of a get_face_colors grid is read from an empty
\* label.
C21_StickerInvariant ==
    LET cubies == cube_model.cubies
        NonZero(p) == Cardinality({i \in 1 .. 3 : p[i] # 0})
    IN  /\ \A p \in DOMAIN cubies, k \in DOMAIN face_to_axis :
              (cubies[p].colors[k] # None) <=>
                  (p[face_to_axis[k][1] + 1] = face_to_axis[k][2])
        /\ \A p \in DOMAIN cubies :
              Cardinality(Coloured(cubies[p])) = NonZero(p)
        /\ \A face \in faces, rc \in (0 .. 2) \X (0 .. 2) :
              get_face_colors(cube_model, face)[rc] \in Colors

\* C21 happened: two turns carried a corner to a position where none of its
\* three labels holds the colour the constructor gives that position
C21_Witness ==
    /\ Len(cube_model.history) = 2
    /\ ValidHistory(cube_model)
    /\ \E p \in DOMAIN cube_model.cubies :
          /\ cube_model.cubies[p].oid[1] = 2
          /\ Cardinality(Coloured(cube_model.cubies[p])) = 3
          /\ \A k \in Outward(p) :
                cube_model.cubies[p].colors[k] # Cubie(p[1], p[2], p[3]).colors[k]

\* the centre position of a face
CentrePos(face) == [<<0, 0, 0>> EXCEPT ![FACE_AXES[face][1] + 1] = FACE_AXES[face][2]]

\* all nine cubies of the face show the colour of the centre cubie on the
\* label that faces outwards
FaceUniform(cubies, face) ==
    LET axis == FACE_AXES[face][1]
        sign == FACE_AXES[face][2]
        key == face_key(axis, sign)
    IN  \A p \in InitialPositions :
            p[axis + 1] = sign =>
                cubies[p].colors[key] = cubies[CentrePos(face)].colors[key]

\* C22 (is_solved): in every reachable state a call of is_solved() returns
\* True exactly when, for each of the six faces, all nine cubies of the face
\* show on their outward label the colour of the face's centre cubie, and
\* False otherwise; the call leaves the cubies, the history and the
\* animation state as they were.
C22_IsSolved ==
    [][last'.op = "is_solved" =>
          /\ last'.ret = (IF \A face \in faces : FaceUniform(cube_model.cubies, face)
                          THEN "True" ELSE "False")
          /\ cube_model' = cube_model
          /\ current_animation' = current_animation]_vars

\* C22 happened: is_solved() was called on a cube with one face turned, whose
\* turned face and the face opposite are uniform and whose four other faces
\* are not, and answered False
C22_Witness ==
    /\ last.op = "is_solved"
    /\ last.ret = "False"
    /\ Len(cube_model.history) = 1
    /\ Cardinality({face \in faces : FaceUniform(cube_model.cubies, face)}) = 2

\* the set of colours a cubie shows
ColourSet(cubie) == {cubie.colors[k] : k \in Coloured(cubie)}

\* the pairs of colours of opposite faces of the solved cube
OppositeColours == {{WHITE, YELLOW}, {RED, ORANGE}, {BLUE, GREEN}}

\* C23 (Rigid permutation of cubies): in every reachable state the 26 cubies
\* carry exactly the 26 colour sets of the solved cube, each exactly once: no
\* cubie shows two opposite colours, and no two cubies show the same set of
\* colours.
C23_RigidPermutation ==
    LET cubies == cube_model.cubies
        solved == CubeModel.cubies
    IN  /\ Cardinality(DOMAIN cubies) = 26
        /\ {ColourSet(cubies[p]) : p \in DOMAIN cubies} =
               {ColourSet(solved[p]) : p \in DOMAIN solved}
        /\ \A p, q \in DOMAIN cubies :
              ColourSet(cubies[p]) = ColourSet(cubies[q]) => p = q
        /\ \A p \in DOMAIN cubies, o \in OppositeColours :
              ~(o \subseteq ColourSet(cubies[p]))

\* C23 happened: two turns of faces of different axes left a rebuilt corner
\* that shares one colour only with the corner of the solved cube at its
\* position
C23_Witness ==
    /\ Len(cube_model.history) = 2
    /\ ValidHistory(cube_model)
    /\ FACE_AXES[cube_model.history[1][1]][1] # FACE_AXES[cube_model.history[2][1]][1]
    /\ \E p \in DOMAIN cube_model.cubies :
          /\ cube_model.cubies[p].oid[1] = 2
          /\ Cardinality(ColourSet(cube_model.cubies[p])) = 3
          /\ Cardinality(ColourSet(cube_model.cubies[p])
                             \cap ColourSet(CubeModel.cubies[p])) = 1

GuiButtons ==
    {"RubiksCubeGUI._rotate_face", "RubiksCubeGUI._randomize_cube",
     "RubiksCubeGUI._reset_cube", "RubiksCubeGUI._solve_cube"}

\* the handlers of the 3-D GUI that call start_animation
GuiStarters ==
    {"RubiksCubeGUI._rotate_face", "RubiksCubeGUI._solve_cube",
     "RubiksCubeGUI._animate_solution"}

C26_AnimatedSolveCompletes ==
    [][(/\ last'.op = "RubiksCubeGUI._animate_solution"
        /\ last'.index < Len(last'.moves)) =>
          LET moves == last'.moves
              index == last'.index
              h == cube_model.history
          IN  /\ Len(h) >= index
              /\ SubSeq(h, Len(h) - index + 1, Len(h)) = SubSeq(moves, 1, index)
              /\ ~cube_model.animating
              /\ cube_model'.animating
              /\ current_animation' = moves[index + 1]]_vars

\* C27 (Animation liveness, 3-D GUI): as long as the animation loop keeps
\* being scheduled, every animation that was started completes: while it
\* runs the pending (face, direction) and the history stay as they are,
\* animating becomes false again, and the step that makes it false clears
\* current_animation and appends the pending (face, direction) to the
\* history of the model.
C27_AnimationLiveness ==
    /\ cube_model.animating ~>
          (/\ ~cube_model.animating
           /\ current_animation = NoAnimation
           /\ last.op = "update_animation")
    /\ [][/\ (~cube_model.animating /\ cube_model'.animating) =>
                 current_animation' # NoAnimation
          /\ (cube_model.animating /\ cube_model'.animating) =>
                 /\ current_animation' = current_animation
                 /\ cube_model'.history = cube_model.history
          /\ (cube_model.animating /\ ~cube_model'.animating) =>
                 /\ current_animation' = NoAnimation
                 /\ cube_model'.history =
                        Append(cube_model.history, current_animation)]_vars

\* C27 happened: the two animations that Solve and its scheduled call
\* started after two different turns have completed, and the cube is solved
C27_Witness ==
    /\ last.op = "update_animation"
    /\ last.ret = "True"
    /\ ~cube_model.animating
    /\ current_animation = NoAnimation
    /\ Len(cube_model.history) = 4
    /\ cube_model.history[1] # cube_model.history[2]
    /\ cube_model.history[3] = <<cube_model.history[2][1], -cube_model.history[2][2]>>
    /\ cube_model.history[4] = <<cube_model.history[1][1], -cube_model.history[1][2]>>
    /\ is_solved(cube_model)

\* the key of FACE_DIRECTIONS that a button name spells
DirectionKey ==
    [name \in ButtonNames |->
        CASE name = "Top" -> "top"
          [] name = "Bottom" -> "bottom"
          [] name = "Right" -> "right"
          [] name = "Left" -> "left"
          [] name = "Front" -> "front"
          [] name = "Back" -> "back"]

\* the (face, direction) a button should request: the face index that
\* FACE_DIRECTIONS gives its name, +1 for CW and -1 for CCW
Named(label) ==
    <<FACE_DIRECTIONS[DirectionKey[label[1]]], IF label[2] = "CW" THEN 1 ELSE -1>>

\* C28 (Face buttons turn the face they name): in both GUIs a press of a
\* face button that is accepted (no animation running) requests the
\* rotation of the face that the model assigns to the name on the button
\* (top 0, bottom 1, right 2, left 3, front 4, back 5), with direction +1
\* for CW and -1 for CCW: the 3-D GUI makes it the pending animation, the
\* 2-D GUI appends it to the history.
C28_FaceButtons ==
    [][/\ (last'.op = "RubiksCubeGUI._rotate_face" /\ ~cube_model.animating) =>
              current_animation' = Named(last'.label)
       /\ (last'.op = "FallbackGUI.rotate_face" /\ ~cube_model.animating) =>
              cube_model'.history = Append(cube_model.history, Named(last'.label))
      ]_vars

\* C29 (Face centres are fixed): in every reachable state the six face
\* centres hold their original colours on their outward labels (+Z White,
\* -Z Yellow, +X Red, -X Orange, +Y Blue, -Y Green), and is_solved() is true
\* if and only if the positions and the colours of all cubies are those of a
\* newly created cube.
C29_CentresFixed ==
    LET cubies == cube_model.cubies
    IN  /\ cubies[<<0, 0, 1>>].colors["z+"] = WHITE
        /\ cubies[<<0, 0, -1>>].colors["z-"] = YELLOW
        /\ cubies[<<1, 0, 0>>].colors["x+"] = RED
        /\ cubies[<<-1, 0, 0>>].colors["x-"] = ORANGE
        /\ cubies[<<0, 1, 0>>].colors["y+"] = BLUE
        /\ cubies[<<0, -1, 0>>].colors["y-"] = GREEN
        /\ is_solved(cube_model) <=>
              (Appearance(cubies) = Appearance(CubeModel.cubies))

\* C29 happened: one face was turned four times; its centre was rebuilt by
\* every turn and holds its colour, and the cube is solved again
C29_Witness ==
    LET h == cube_model.history
    IN  /\ Len(h) = 4
        /\ \A i \in 1 .. 4 : h[i] = h[1]
        /\ cube_model.cubies[CentrePos(h[1][1])].oid[1] = 4
        /\ is_solved(cube_model)
        /\ ~is_solved(Replay(h, 2))

\* C30 (No default colours leak): in every reachable state, for every face
\* and direction and every cubie of the face, the labels that
\* _rotate_cubie_colors writes on the new cubie Cubie(new_pos) are exactly
\* the labels the constructor coloured; each holds afterwards the colour
\* the old cubie carried on the label it is the image of, and the cubie
\* that rotate_face leaves at new_pos has exactly these colours.
C30_NoDefaultLeak ==
    \A face \in faces, direction \in directions :
        LET axis == FACE_AXES[face][1]
            sign == FACE_AXES[face][2]
            effective_dir == direction * sign
            mapping == face_mapping(axis, effective_dir)
            after == rotate_face(cube_model, face, direction).self.cubies
        IN  \A pos \in DOMAIN cube_model.cubies :
                pos[axis + 1] = sign =>
                    LET np == new_pos(pos, axis, effective_dir)
                        old_cubie == cube_model.cubies[pos]
                        written == {mapping[k] : k \in Coloured(old_cubie)}
                    IN  /\ written = Coloured(Cubie(np[1], np[2], np[3]))
                        /\ Coloured(after[np]) = written
                        /\ \A k \in Coloured(old_cubie) :
                              after[np].colors[mapping[k]] = old_cubie.colors[k]

\* C30 happened: the second of two turns has rebuilt a corner at a position
\* where the constructor gives other colours to all three labels, and the
\* corner holds on each the colour it carried before the turn
C30_Witness ==
    LET h == cube_model.history
    IN  /\ Len(h) = 2
        /\ ValidHistory(cube_model)
        /\ LET axis == FACE_AXES[h[2][1]][1]
               sign == FACE_AXES[h[2][1]][2]
               mapping == face_mapping(axis, h[2][2] * sign)
               before == Replay(h, 1).cubies
           IN  \E pos \in DOMAIN before :
                   LET np == new_pos(pos, axis, h[2][2] * sign)
                   IN  /\ pos[axis + 1] = sign
                       /\ Cardinality(Coloured(before[pos])) = 3
                       /\ \A k \in Coloured(before[pos]) :
                             /\ cube_model.cubies[np].colors[mapping[k]]
                                    = before[pos].colors[k]
                             /\ cube_model.cubies[np].colors[mapping[k]]
                                    # Cubie(np[1], np[2], np[3]).colors[mapping[k]]

====
